---- MODULE Spec2Model ----
(***************************************************************************)
(* Model of usda_sublayer_editor.py: UsdPrimRefEditor, UsdaSublayerEditor  *)
(* and get_prim_paths_with_prepended_refs, over a USDA file on disk, the   *)
(* in-memory Sdf.Layer the library keeps for it, and an external writer.   *)
(*                                                                         *)
(* Strings that the code inspects (prim paths) are sequences of one-       *)
(* character strings; asset paths and sublayer paths are opaque strings.   *)
(* Python's None is modelled per type: "None" for the layer handle, the    *)
(* isNone flag for a reference list, <<>> for "no exception".              *)
(***************************************************************************)
EXTENDS Integers, Sequences, FiniteSets, TLC

VARIABLES
    editor,     \* the editor object: cls, usda_path, prim_path, _layer
    file,       \* the USDA file on disk: openable, data
    layer,      \* the data of the Sdf.Layer object the library holds for the file
    last,       \* the most recent call on the editor: its name, argument, library
                \* calls, outcome, recorded locals, the file's content when it began
                \* (or the external write that followed it)
    edA, fileA, layerA, outA,   \* lockstep pair: editor built WITHOUT the leading slash
    edB, fileB, layerB, outB,   \* lockstep pair: editor built WITH the leading slash
    tfile,      \* the layer file walked by get_prim_paths_with_prepended_refs
    tpc,        \* position inside get_prim_paths_with_prepended_refs
    stack,      \* its local `stack`
    result,     \* its local `result`
    terr        \* the exception it raised, <<>> if none

vars == <<editor, file, layer, last, edA, fileA, layerA, outA,
          edB, fileB, layerB, outB, tfile, tpc, stack, result, terr>>
edVars == <<editor, file, layer, last>>
pairVars == <<edA, fileA, layerA, outA, edB, fileB, layerB, outB>>
travVars == <<tfile, tpc, stack, result, terr>>

----------------------------------------------------------------------------
(* Bounds *)

\* longest prepended reference list an on-disk prim carries
MaxRefs == 2
\* longest new_order a caller passes to save_primrefs
MaxOrder == 2
\* longest sublayer list on disk or passed to save_sublayers
MaxSub == 2
\* most prims in a layer walked by get_prim_paths_with_prepended_refs
MaxPrims == 3

Assets == {"a", "b", "c"}
SubPaths == {"x.usda", "y.usda", "z.usda"}
PrimNames == <<"A", "B", "C", "D", "E", "F">>
UsdaPath == "layer.usda"

SeqsUpTo(S, n) == UNION {[1..k -> S] : k \in 0..n}

----------------------------------------------------------------------------
(* The document model the code calls into *)

Reference(a) == [assetPath |-> a]
NoReferenceList == [isNone |-> TRUE, prependedItems |-> <<>>]
ReferenceList(items) == [isNone |-> FALSE, prependedItems |-> items]
AssetPaths(items) == [i \in 1..Len(items) |-> items[i].assetPath]
References(paths) == [i \in 1..Len(paths) |-> Reference(paths[i])]

NoPrims == [p \in {} |-> NoReferenceList]
EmptyData == [prims |-> NoPrims, subLayerPaths |-> <<>>]

NoError == <<>>
Raised(w) == w.err # NoError
Raise(w, msg) == [w EXCEPT !.err = msg]
Called(w, name) == [w EXCEPT !.calls = Append(@, name)]

\* str(KeyError(path)): the key's repr, i.e. the path in single quotes
KeyErrorStr(path) == <<"'", path, "'">>

\* Sdf.Layer.FindOrOpen: None when the file cannot be opened, else the layer
\* with the file's content
FindOrOpen(w) ==
    IF w.file.openable
    THEN [Called(w, "FindOrOpen") EXCEPT !.ed._layer = "Layer", !.layer = w.file.data]
    ELSE Called(w, "FindOrOpen")

\* Sdf.Layer.Reload: the in-memory data becomes the file's content again
Reload(w) == [Called(w, "Reload") EXCEPT !.layer = w.file.data]

\* Sdf.Layer.Save: the file's content becomes the in-memory data
Save(w) == [Called(w, "Save") EXCEPT !.file.data = w.layer]

\* Sdf.Layer.GetPrimAtPath: the prim spec at exactly that path, or None
HasPrimAtPath(data, path) == path \in DOMAIN data.prims

----------------------------------------------------------------------------
(* UsdPrimRefEditor *)

PrimRefEditor_init_raw(usda_path, prim_path) ==
    [cls |-> "UsdPrimRefEditor", usda_path |-> usda_path,
     prim_path |-> prim_path, _layer |-> "None"]

PrimRefEditor_init(usda_path, prim_path) ==
    [cls |-> "UsdPrimRefEditor", usda_path |-> usda_path,
     prim_path |-> IF Len(prim_path) > 0 /\ prim_path[1] = "/"
                   THEN prim_path ELSE <<"/">> \o prim_path,
     _layer |-> "None"]

\* a world: the editor, the file, the layer data, and the running call's
\* library calls, return value, exception and recorded locals
World(ed, f, l) ==
    [ed |-> ed, file |-> f, layer |-> l, calls |-> <<>>, ret |-> <<>>,
     err |-> NoError, original_refs |-> <<>>, reordered_refs |-> <<>>]

_get_layer_reload_on_open(w) ==
    IF w.ed._layer = "None"
    THEN LET o == FindOrOpen(w)
         IN IF o.ed._layer = "None"
            THEN Raise(o, <<"Could not open USD layer: ", w.ed.usda_path>>)
            ELSE Reload(o)
    ELSE w

_get_layer(w) ==
    LET o == IF w.ed._layer = "None" THEN FindOrOpen(w) ELSE w
    IN IF o.ed._layer = "None"
       THEN Raise(o, <<"Could not open USD layer: ", w.ed.usda_path>>)
       ELSE Reload(o)

_get_prim_spec_cached(w) ==
    LET l == IF w.ed._layer = "None" THEN _get_layer(w) ELSE w
    IN IF Raised(l) THEN l
       ELSE LET g == Called(l, "GetPrimAtPath")
            IN IF HasPrimAtPath(g.layer, g.ed.prim_path) THEN g
               ELSE Raise(g, <<"Could not find prim at path: ">> \o g.ed.prim_path)

_get_prim_spec(w) ==
    LET l == _get_layer(w)
    IN IF Raised(l) THEN l
       ELSE LET g == Called(l, "GetPrimAtPath")
            IN IF HasPrimAtPath(g.layer, g.ed.prim_path) THEN g
               ELSE Raise(g, <<"Could not find prim at path: ">> \o g.ed.prim_path)

load_primrefs(w) ==
    LET p == _get_prim_spec(w)
    IN IF Raised(p) THEN p
       ELSE LET ref_list_op == p.layer.prims[p.ed.prim_path]
            IN IF ref_list_op.isNone THEN [p EXCEPT !.ret = <<>>]
               ELSE [Called(p, "GetPrependedItems")
                        EXCEPT !.ret = AssetPaths(ref_list_op.prependedItems)]

\* line 69: the prim has no reference-list operation
NoListOp_unless_empty(ref_list_op, new_order) == ref_list_op.isNone /\ new_order # <<>>
NoListOp(ref_list_op, new_order) == ref_list_op.isNone

by_asset_default(original_refs) == [a \in Assets |-> Reference(a)]

\* line 77: {ref.assetPath: ref for ref in original_refs}; a later entry with the
\* same asset path replaces an earlier one
by_asset(original_refs) ==
    [a \in {original_refs[i].assetPath : i \in 1..Len(original_refs)} |->
        LET is == {i \in 1..Len(original_refs) : original_refs[i].assetPath = a}
        IN original_refs[CHOOSE i \in is : \A j \in is : j <= i]]

\* lines 79-83: the positions of new_order whose lookup raises KeyError
KeyErrors(d, new_order) == {i \in 1..Len(new_order) : new_order[i] \notin DOMAIN d}

\* lines 87-88: layer = self._get_layer(); layer.Save()
Save_cached_layer(w) == Save(w)
get_layer_and_Save(w) ==
    LET l == _get_layer(w) IN IF Raised(l) THEN l ELSE Save(l)

save_primrefs(w, new_order) ==
    LET p == _get_prim_spec(w)
    IN IF Raised(p) THEN p
       ELSE
       LET ref_list_op == p.layer.prims[p.ed.prim_path]
       IN IF NoListOp(ref_list_op, new_order)
          THEN Raise(p, <<"Prim has no references to reorder.">>)
          ELSE
          LET q == [Called(p, "GetPrependedItems")
                       EXCEPT !.original_refs = ref_list_op.prependedItems]
              original_refs == q.original_refs
          IN IF original_refs = <<>> /\ new_order # <<>>
             THEN Raise(q, <<"No prepended references found on prim.">>)
             ELSE
             LET d == by_asset(original_refs)
                 bad == KeyErrors(d, new_order)
             IN IF bad # {}
                THEN LET first == CHOOSE i \in bad : \A j \in bad : i <= j
                     IN Raise(q, <<"Unknown reference path in new_order: ">>
                                     \o KeyErrorStr(new_order[first]))
                ELSE
                LET reordered_refs == [i \in 1..Len(new_order) |-> d[new_order[i]]]
                    s == [Called(q, "SetPrependedItems")
                             EXCEPT !.reordered_refs = reordered_refs,
                                    !.layer.prims[q.ed.prim_path] =
                                        ReferenceList(reordered_refs)]
                IN get_layer_and_Save(s)

----------------------------------------------------------------------------
(* UsdaSublayerEditor *)

SublayerEditor_init(usda_path) ==
    [cls |-> "UsdaSublayerEditor", usda_path |-> usda_path, _layer |-> "None"]

load_sublayers(w) ==
    LET l == _get_layer(w)
    IN IF Raised(l) THEN l
       ELSE [Called(l, "GetSubLayerPaths") EXCEPT !.ret = l.layer.subLayerPaths]

save_sublayers_reload_before_Save(w, new_order) ==
    LET l == _get_layer(w)
    IN IF Raised(l) THEN l
       ELSE get_layer_and_Save(
                [Called(l, "SetSubLayerPaths") EXCEPT !.layer.subLayerPaths = new_order])

save_sublayers(w, new_order) ==
    LET l == _get_layer(w)
    IN IF Raised(l) THEN l
       ELSE Save([Called(l, "SetSubLayerPaths") EXCEPT !.layer.subLayerPaths = new_order])

----------------------------------------------------------------------------
(* One editor, its file, and an external writer *)

PrimPathA == <<"/", "A">>
PrimPathInputs == {<<"A">>, <<"/", "A">>}
RefLists == {NoReferenceList} \cup
            {ReferenceList(References(s)) : s \in SeqsUpTo(Assets, MaxRefs)}
PrimData == {[prims |-> NoPrims, subLayerPaths |-> <<>>]} \cup
            {[prims |-> (PrimPathA :> rl), subLayerPaths |-> <<>>] : rl \in RefLists}
SubData == {[prims |-> NoPrims, subLayerPaths |-> s] : s \in SeqsUpTo(SubPaths, MaxSub)}
NewOrders == SeqsUpTo(Assets, MaxOrder)
NewSublayers == SeqsUpTo(SubPaths, MaxSub)

\* the contents an external writer may give the file an editor of class cls edits
DataFor(cls) == IF cls = "UsdPrimRefEditor" THEN PrimData ELSE SubData

NoCall == [op |-> "none", prev |-> "none", stale |-> FALSE, before |-> EmptyData,
           new_order |-> <<>>, calls |-> <<>>, ret |-> <<>>, err |-> NoError,
           original_refs |-> <<>>, reordered_refs |-> <<>>]

\* the editor call before the one being recorded
PrevCall == IF last.op = "external" THEN last.prev ELSE last.op

\* the cached layer differs from the file when the call starts
StaleAtEntry == editor._layer # "None" /\ layer # file.data

CallRecord(op, new_order, w) ==
    [op |-> op, prev |-> PrevCall, stale |-> StaleAtEntry, before |-> file.data,
     new_order |-> new_order,
     calls |-> w.calls, ret |-> w.ret, err |-> w.err,
     original_refs |-> w.original_refs, reordered_refs |-> w.reordered_refs]

Returns(op, new_order, w) ==
    /\ editor' = w.ed
    /\ file' = w.file
    /\ layer' = w.layer
    /\ last' = CallRecord(op, new_order, w)
    /\ UNCHANGED <<pairVars, travVars>>

LoadPrimrefs ==
    /\ editor.cls = "UsdPrimRefEditor"
    /\ Returns("load_primrefs", <<>>, load_primrefs(World(editor, file, layer)))

SavePrimrefs ==
    /\ editor.cls = "UsdPrimRefEditor"
    /\ \E new_order \in NewOrders :
          Returns("save_primrefs", new_order,
                  save_primrefs(World(editor, file, layer), new_order))

LoadSublayers ==
    /\ editor.cls = "UsdaSublayerEditor"
    /\ Returns("load_sublayers", <<>>, load_sublayers(World(editor, file, layer)))

SaveSublayers ==
    /\ editor.cls = "UsdaSublayerEditor"
    /\ \E new_order \in NewSublayers :
          Returns("save_sublayers", new_order,
                  save_sublayers(World(editor, file, layer), new_order))

\* another process rewrites the file between two calls
ExternalWrite ==
    /\ \E d \in DataFor(editor.cls) :
          /\ d # file.data
          /\ file' = [file EXCEPT !.data = d]
    /\ last' = [NoCall EXCEPT !.op = "external", !.prev = PrevCall]
    /\ UNCHANGED <<editor, layer, pairVars, travVars>>

PairIdle ==
    /\ edA = PrimRefEditor_init(UsdaPath, <<"A">>)
    /\ edB = edA
    /\ fileA = [openable |-> TRUE, data |-> EmptyData]
    /\ fileB = fileA
    /\ layerA = EmptyData
    /\ layerB = EmptyData
    /\ outA = NoCall
    /\ outB = NoCall

TravIdle ==
    /\ tfile = [openable |-> FALSE, n |-> 0, parent |-> <<>>, refs |-> <<>>]
    /\ tpc = "idle"
    /\ stack = <<>>
    /\ result = <<>>
    /\ terr = NoError

EdIdle ==
    /\ editor = SublayerEditor_init(UsdaPath)
    /\ file = [openable |-> FALSE, data |-> EmptyData]
    /\ layer = EmptyData
    /\ last = NoCall

Init ==
    /\ editor \in {PrimRefEditor_init(UsdaPath, p) : p \in PrimPathInputs}
                  \cup {SublayerEditor_init(UsdaPath)}
    /\ file \in {[openable |-> o, data |-> d] :
                    o \in BOOLEAN, d \in PrimData \cup SubData}
    /\ file.data \in DataFor(editor.cls)
    /\ layer = EmptyData
    /\ last = NoCall
    /\ PairIdle
    /\ TravIdle

Next ==
    \/ LoadPrimrefs
    \/ SavePrimrefs
    \/ LoadSublayers
    \/ SaveSublayers
    \/ ExternalWrite

Spec == Init /\ [][Next]_vars

----------------------------------------------------------------------------
(* Two editors on identical files, one built from a prim name without the  *)
(* leading slash and one built with it, driven by the same calls           *)

PairNames == {<<"A">>, <<"B">>}

Outcome(w) == [calls |-> w.calls, ret |-> w.ret, err |-> w.err]

PairReturns(a, b) ==
    /\ edA' = a.ed /\ fileA' = a.file /\ layerA' = a.layer /\ outA' = Outcome(a)
    /\ edB' = b.ed /\ fileB' = b.file /\ layerB' = b.layer /\ outB' = Outcome(b)
    /\ UNCHANGED <<edVars, travVars>>

PairLoad ==
    PairReturns(load_primrefs(World(edA, fileA, layerA)),
                load_primrefs(World(edB, fileB, layerB)))

PairSave ==
    \E new_order \in NewOrders :
        PairReturns(save_primrefs(World(edA, fileA, layerA), new_order),
                    save_primrefs(World(edB, fileB, layerB), new_order))

\* the same external write reaches both files
PairExternalWrite ==
    /\ \E d \in PrimData :
          /\ d # fileA.data \/ d # fileB.data
          /\ fileA' = [fileA EXCEPT !.data = d]
          /\ fileB' = [fileB EXCEPT !.data = d]
    /\ outA' = [calls |-> <<>>, ret |-> <<>>, err |-> NoError]
    /\ outB' = outA'
    /\ UNCHANGED <<edA, edB, layerA, layerB, edVars, travVars>>

InitPair ==
    /\ \E p \in PairNames :
          /\ edA = PrimRefEditor_init(UsdaPath, p)
          /\ edB = PrimRefEditor_init(UsdaPath, <<"/">> \o p)
    /\ fileA \in {[openable |-> o, data |-> d] : o \in BOOLEAN, d \in PrimData}
    /\ fileB = fileA
    /\ layerA = EmptyData
    /\ layerB = EmptyData
    /\ outA = [calls |-> <<>>, ret |-> <<>>, err |-> NoError]
    /\ outB = outA
    /\ EdIdle
    /\ TravIdle

NextPair ==
    \/ PairLoad
    \/ PairSave
    \/ PairExternalWrite

SpecPair == InitPair /\ [][NextPair]_vars

----------------------------------------------------------------------------
(* get_prim_paths_with_prepended_refs *)

\* a layer's prim tree: prims 1..n, parent[i] < i (0 for a root prim), siblings
\* in index order; every ordered forest of n prims has such a numbering
ParentSeqs(n) == {p \in [1..n -> 0..n] : \A i \in 1..n : p[i] < i}
TravRefLists == {NoReferenceList, ReferenceList(<<>>),
                 ReferenceList(References(<<"a">>)),
                 ReferenceList(References(<<"a", "b">>))}
TravFiles ==
    {[openable |-> FALSE, n |-> 0, parent |-> <<>>, refs |-> <<>>]} \cup
    UNION {{[openable |-> TRUE, n |-> n, parent |-> p, refs |-> r] :
               p \in ParentSeqs(n), r \in [1..n -> TravRefLists]} : n \in 0..MaxPrims}

RECURSIVE Ascending(_)
Ascending(S) ==
    IF S = {} THEN <<>>
    ELSE LET m == CHOOSE x \in S : \A y \in S : x <= y
         IN <<m>> \o Ascending(S \ {m})

\* layer.rootPrims and spec.nameChildren, as prim indices in document order
rootPrims(t) == Ascending({i \in 1..t.n : t.parent[i] = 0})
nameChildren(t, spec) == Ascending({i \in 1..t.n : t.parent[i] = spec})

\* str(spec.path)
RECURSIVE SpecPath(_, _)
SpecPath(t, spec) ==
    IF t.parent[spec] = 0 THEN <<"/", PrimNames[spec]>>
    ELSE SpecPath(t, t.parent[spec]) \o <<"/", PrimNames[spec]>>

\* line 155: ref_list_op is not None and list(ref_list_op.prependedItems)
HasListOp(ref_list_op) == ~ref_list_op.isNone
HasPrependedRefs(ref_list_op) ==
    ~ref_list_op.isNone /\ ref_list_op.prependedItems # <<>>

\* lines 158-159: the prims pushed after a pop
Pushed(t, spec) == nameChildren(t, spec)

\* lines 143-145, FindOrOpen returned None
TravOpenFails ==
    /\ tpc = "start"
    /\ ~tfile.openable
    /\ terr' = <<"Could not open USD layer: ", UsdaPath>>
    /\ tpc' = "raised"
    /\ UNCHANGED <<tfile, stack, result, edVars, pairVars>>

\* lines 143-150
TravOpen ==
    /\ tpc = "start"
    /\ tfile.openable
    /\ stack' = rootPrims(tfile)
    /\ result' = <<>>
    /\ tpc' = "loop"
    /\ UNCHANGED <<tfile, terr, edVars, pairVars>>

\* lines 152-159, one iteration
TravPop ==
    /\ tpc = "loop"
    /\ stack # <<>>
    /\ LET spec == stack[Len(stack)]
           ref_list_op == tfile.refs[spec]
       IN /\ result' = IF HasPrependedRefs(ref_list_op)
                       THEN Append(result, SpecPath(tfile, spec))
                       ELSE result
          /\ stack' = SubSeq(stack, 1, Len(stack) - 1) \o Pushed(tfile, spec)
    /\ UNCHANGED <<tfile, tpc, terr, edVars, pairVars>>

\* line 161
TravReturn ==
    /\ tpc = "loop"
    /\ stack = <<>>
    /\ tpc' = "done"
    /\ UNCHANGED <<tfile, stack, result, terr, edVars, pairVars>>

InitTrav ==
    /\ tfile \in TravFiles
    /\ tpc = "start"
    /\ stack = <<>>
    /\ result = <<>>
    /\ terr = NoError
    /\ EdIdle
    /\ PairIdle

NextTrav ==
    \/ TravOpenFails
    \/ TravOpen
    \/ TravPop
    \/ TravReturn

\* the function runs to completion once called: single-threaded, no suspension
SpecTrav == InitTrav /\ [][NextTrav]_vars /\ WF_vars(NextTrav)

----------------------------------------------------------------------------
(* Properties *)

Range(s) == {s[i] : i \in DOMAIN s}
Count(s, x) == Cardinality({i \in DOMAIN s : s[i] = x})
IsPermutation(s, t) == Len(s) = Len(t) /\ \A x \in Range(s) \cup Range(t) : Count(s, x) = Count(t, x)
Distinct(s) == \A i, j \in DOMAIN s : i # j => s[i] # s[j]
Precedes(calls, x, y) == \E i, j \in DOMAIN calls : i < j /\ calls[i] = x /\ calls[j] = y
LibraryCalls(calls) == SelectSeq(calls, LAMBDA c : c # "FindOrOpen")

\* the prim's prepended asset paths in a layer content that has the prim
PrependedIn(data) == AssetPaths(data.prims[editor.prim_path].prependedItems)
HasListOpIn(data) ==
    /\ HasPrimAtPath(data, editor.prim_path)
    /\ ~data.prims[editor.prim_path].isNone

SavedPrimrefs == editor.cls = "UsdPrimRefEditor" /\ last.op = "save_primrefs"
\* what load_primrefs would return if called now
LoadNow == load_primrefs(World(editor, file, layer))

\* C1: after save_primrefs(P) returns without error for a permutation P of the
\* prim's distinct on-disk prepended asset paths, load_primrefs returns exactly P
C1_PermutationRoundTrip ==
    (/\ SavedPrimrefs
     /\ last.err = NoError
     /\ HasListOpIn(last.before)
     /\ Distinct(PrependedIn(last.before))
     /\ IsPermutation(last.new_order, PrependedIn(last.before)))
    => (LoadNow.err = NoError /\ LoadNow.ret = last.new_order)

\* the positions of new_order naming no current prepended asset path
UnknownIn(new_order, data) ==
    {i \in DOMAIN new_order : new_order[i] \notin Range(PrependedIn(data))}
UnknownError(path) == <<"Unknown reference path in new_order: ">> \o KeyErrorStr(path)
NothingWritten ==
    /\ "SetPrependedItems" \notin Range(last.calls)
    /\ "Save" \notin Range(last.calls)
    /\ file.data = last.before
    /\ LoadNow.err = NoError
    /\ LoadNow.ret = PrependedIn(last.before)
SavedWithUnknownPath ==
    /\ SavedPrimrefs
    /\ file.openable
    /\ HasListOpIn(last.before)
    /\ UnknownIn(last.new_order, last.before) # {}

\* C2 as stated: a new_order naming an asset path that is not among the prim's
\* current prepended asset paths, the empty current list included, fails with the
\* unknown-reference error naming that path, writes nothing, and load_primrefs
\* still returns the original order
C2_UnknownPathRejection_AsStated ==
    SavedWithUnknownPath =>
        /\ \E i \in UnknownIn(last.new_order, last.before) :
              last.err = UnknownError(last.new_order[i])
        /\ NothingWritten

\* C2 amended: such a call always fails and writes nothing, and load_primrefs
\* still returns the original order; the error is the unknown-reference error
\* naming the first unknown path of new_order when the current prepended list is
\* non-empty, and "No prepended references found on prim." when it is empty
C2_UnknownPathRejection ==
    SavedWithUnknownPath =>
        /\ LET bad == UnknownIn(last.new_order, last.before)
               first == CHOOSE i \in bad : \A j \in bad : i <= j
           IN IF PrependedIn(last.before) = <<>>
              THEN last.err = <<"No prepended references found on prim.">>
              ELSE last.err = UnknownError(last.new_order[first])
        /\ NothingWritten

C2_Witness ==
    /\ SavedWithUnknownPath
    /\ PrependedIn(last.before) # <<>>
    /\ Cardinality(UnknownIn(last.new_order, last.before)) = 1
    /\ Len(last.new_order) = 2
    /\ last.err # NoError

C4_ReloadBeforeRead ==
    /\ (editor.cls = "UsdPrimRefEditor" /\ last.op = "load_primrefs" /\ file.openable) =>
          /\ last.err = NoError <=> HasPrimAtPath(file.data, editor.prim_path)
          /\ last.err = NoError =>
                /\ last.ret = PrependedIn(file.data)
                /\ Precedes(last.calls, "Reload", "GetPrimAtPath")
    /\ (editor.cls = "UsdaSublayerEditor" /\ last.op = "load_sublayers" /\ file.openable) =>
          /\ last.err = NoError
          /\ last.ret = file.data.subLayerPaths
          /\ Precedes(last.calls, "Reload", "GetSubLayerPaths")

\* a second load_primrefs after an external write changed the file
C4_Witness ==
    /\ editor.cls = "UsdPrimRefEditor"
    /\ last.op = "load_primrefs"
    /\ last.prev = "load_primrefs"
    /\ last.stale
    /\ last.err = NoError
    /\ last.ret # <<>>

\* C5: save_primrefs validates new_order against, and builds the reordered
\* list from the entries of, the prepended list the file holds when
\* save_primrefs is called
C5_SaveUsesStateAtSaveTime ==
    (SavedPrimrefs /\ file.openable /\ HasListOpIn(last.before)) =>
        /\ AssetPaths(last.original_refs) = PrependedIn(last.before)
        /\ last.err = NoError <=> UnknownIn(last.new_order, last.before) = {}
        /\ last.err = NoError =>
              /\ AssetPaths(last.reordered_refs) = last.new_order
              /\ Range(last.reordered_refs) \subseteq Range(last.original_refs)

\* a save_primrefs that follows a load_primrefs and an external write, and
\* succeeds
C5_Witness ==
    /\ SavedPrimrefs
    /\ last.prev = "load_primrefs"
    /\ last.stale
    /\ HasListOpIn(last.before)
    /\ last.err = NoError
    /\ Len(last.new_order) = 2

\* C6: save_sublayers(S) on an openable layer succeeds for every S and a
\* following load_sublayers returns exactly S
C6_SublayerReplacementUnchecked ==
    (editor.cls = "UsdaSublayerEditor" /\ last.op = "save_sublayers" /\ file.openable) =>
        /\ last.err = NoError
        /\ LET l == load_sublayers(World(editor, file, layer))
           IN l.err = NoError /\ l.ret = last.new_order

\* a save_sublayers whose paths were not in the previous list
C6_Witness ==
    /\ editor.cls = "UsdaSublayerEditor"
    /\ last.op = "save_sublayers"
    /\ last.err = NoError
    /\ Len(last.new_order) = 2
    /\ Range(last.new_order) \cap Range(last.before.subLayerPaths) = {}
    /\ last.before.subLayerPaths # <<>>

\* the prims of the walked layer that have a non-empty prepended list
WithPrependedRefs ==
    {SpecPath(tfile, i) : i \in {j \in 1..tfile.n :
        ~tfile.refs[j].isNone /\ tfile.refs[j].prependedItems # <<>>}}

\* C7: get_prim_paths_with_prepended_refs terminates, and returns each prim
\* that has a non-empty prepended list exactly once and no other prim
C7_TraversalComplete ==
    /\ <>(tpc \in {"done", "raised"})
    /\ [](tpc = "done" => (Range(result) = WithPrependedRefs /\ Distinct(result)))

\* a finished walk of a nested tree: a grandchild with references, a prim without
C7_Witness ==
    /\ tpc = "done"
    /\ tfile.n = 3
    /\ tfile.parent = <<0, 1, 2>>
    /\ tfile.refs[1].isNone
    /\ Len(result) = 2

\* C8: when the targeted prim has no reference-list operation, save_primrefs
\* fails with "Prim has no references to reorder." for every new_order, the
\* empty one included, and neither rewrites the prepended list nor saves
C8_NoReferencesRejection ==
    (/\ SavedPrimrefs
     /\ file.openable
     /\ HasPrimAtPath(last.before, editor.prim_path)
     /\ last.before.prims[editor.prim_path].isNone) =>
        /\ last.err = <<"Prim has no references to reorder.">>
        /\ "SetPrependedItems" \notin Range(last.calls)
        /\ "Save" \notin Range(last.calls)
        /\ file.data = last.before

C8_Witness ==
    /\ SavedPrimrefs
    /\ HasPrimAtPath(last.before, editor.prim_path)
    /\ last.before.prims[editor.prim_path].isNone
    /\ last.new_order = <<>>
    /\ last.err # NoError

\* C9: every editor's stored prim path begins with "/", and an editor built
\* from a name without the slash and one built with it give the same results
\* and errors and leave the same file after every sequence of calls
C9_PathNormalization ==
    /\ edA.prim_path[1] = "/"
    /\ edB.prim_path[1] = "/"
    /\ outA = outB
    /\ fileA = fileB

\* both editors reordered and saved on a prim that exists
C9_Witness ==
    /\ "Save" \in Range(outA.calls)
    /\ outA.err = NoError
    /\ outA.ret = <<>>
    /\ fileA.data.prims # NoPrims

====
